---- MODULE Spec2Model ----
(***************************************************************************)
(* A model of kraftkit's `kraft compose up` reconciliation pass            *)
(* (internal/cli/kraft/compose/up/up.go) and of the watch of `kraft        *)
(* events` (internal/cli/kraft/events/events.go).                          *)
(*                                                                         *)
(* Strings are sequences of one-character strings, so that the splitting   *)
(* of an image reference at ":" and of a platform at "/" is computed as    *)
(* strings.SplitN computes it.  External collaborators (network driver,    *)
(* machine driver, catalogs, build, package, pull, persistence) are the    *)
(* environment: every call has the outcomes the collaborator can give.     *)
(* Every collaborator call of a pass is appended to `trace`.               *)
(*                                                                         *)
(* Spec is the pass, repeated on the same project and host.  SpecResolve   *)
(* is ensureServiceIsPackaged called on its own, on every service and      *)
(* local catalog of the bounded sets.  SpecWatch is EventOptions.Run: the  *)
(* seek loop, the observer goroutines it starts, the machine store         *)
(* changing under it and the interrupt.  SpecObserve is the same watch of  *)
(* one machine named on the command line, with what each observer handles  *)
(* recorded.                                                               *)
(***************************************************************************)
EXTENDS Integers, Sequences, FiniteSets, TLC

\* ------------------------------------------------------------------ bounds
\* the number of times the command is invoked on the project
MaxPasses == 2

\* the number of listings of the watch loop
MaxTicks == 2

\* the declared services, in declaration order, and the declared networks
SvcOrder == <<"web", "db">>
SvcNames == { SvcOrder[i] : i \in 1..Len(SvcOrder) }
NetNames == {"net0", "net1"}

\* ----------------------------------------------------------------- strings
Latest == <<"l", "a", "t", "e", "s", "t">>

\* index of the first occurrence of the one-character separator, 0 if none
IndexOf(s, sep) ==
  IF \E i \in 1..Len(s) : s[i] = sep
  THEN CHOOSE i \in 1..Len(s) : s[i] = sep /\ \A j \in 1..(i - 1) : s[j] # sep
  ELSE 0

\* strings.SplitN(s, sep, 2)
SplitN2(s, sep) ==
  LET i == IndexOf(s, sep)
  IN  IF i = 0 THEN <<s>>
      ELSE <<SubSeq(s, 1, i - 1), SubSeq(s, i + 1, Len(s))>>

\* the image references and platform strings a service may declare
\* (the empty reference: build from source; untagged; tagged; two colons)
Images == { <<>>, <<"a">>, <<"a", ":", "b">>, <<"a", ":", "b", ":", "c">> }
Platforms == { <<"q", "/", "x">>, <<"q">> }

\* Build is TRUE when the service declares a build context
Services == [Name : SvcNames, Image : Images, Build : BOOLEAN, Platform : Platforms]

\* a package of a catalog
PkgKey(name, version, plat, arch) ==
  [name |-> name, version |-> version, plat |-> plat, arch |-> arch]

PkgKeys ==
  { PkgKey(<<"a">>, v, <<"q">>, <<"x">>) : v \in {Latest, <<"b">>, <<"b", ":", "c">>} }

\* -------------------------------------------------------------- the state
VARIABLES
  project,          \* the loaded compose project: Services, Networks
  nets,             \* network driver: the names of the existing networks
  machs,            \* machine driver: name -> "absent" | "running" | "exited"
  localCatalog,     \* packages of the local catalog
  record,           \* the persisted compose record of the project
  pc,               \* position of UpOptions.Run
  passes,           \* number of passes started
  embeddedProject,  \* the record read by composeController.Get
  projectNetworks,  \* owned networks collected by the pass
  projectMachines,  \* owned machines collected by the pass
  networks,         \* names returned by networkController.List
  orderedNetworks,  \* networks still to process, in order
  machines,         \* listing returned by machineController.List
  svcIdx,           \* index of the service being processed
  logTask,          \* log-tailing task per service
  passErr,          \* error returned by Run, "nil" if none
  trace,            \* collaborator calls of the current pass, in order
  rService,         \* ensureServiceIsPackaged alone: its argument,
  rLocal,           \*   the local catalog it starts from,
  rOut,             \*   and its result, once it has returned
  args,             \* the watch: the arguments of the command
  quitTogether,     \* opts.QuitTogether
  mstate,           \* machine store: UID -> state
  observations,     \* the registry of observed machines
  wpc,              \* position of EventOptions.Run
  tick,             \* number of listings made
  listed,           \* machines.Items of the current listing
  addIdx,           \* index of the listed machine being looked at
  cancelled,        \* the context of the watch is done
  obs,              \* the observer goroutines
  watchErr,         \* error returned by EventOptions.Run, "nil" if none
  stop,             \* which break left the seek loop
  lastOp,           \* last registry operation called per machine
  traced,           \* whether the observers record what they handle
  hSum,             \* the checksum: digest.sum, a uint32 in two 16-bit halves
  hTotal,           \* the sum of the bytes written, never reduced
  hRet,             \* the last call on the digest and what it returned
  hOps              \* number of calls made on the digest

upVars == <<project, nets, machs, localCatalog, record, pc, passes,
            embeddedProject, projectNetworks, projectMachines, networks,
            orderedNetworks, machines, svcIdx, logTask, passErr, trace>>

resolveVars == <<rService, rLocal, rOut>>

watchVars == <<args, quitTogether, mstate, observations, wpc, tick, listed,
               addIdx, cancelled, obs, watchErr, stop, lastOp, traced>>

hashVars == <<hSum, hTotal, hRet, hOps>>

vars == <<upVars, resolveVars, watchVars, hashVars>>

\* ------------------------------------------------------- collaborator calls
NoKey == PkgKey(<<>>, <<>>, <<>>, <<>>)

\* one collaborator call: the operation, the service or network it is for,
\* its string argument, its catalog filter, and its outcome
Call(op, who, arg, key, res) ==
  [op |-> op, who |-> who, arg |-> arg, key |-> key, res |-> res]

Res(ok) == IF ok THEN "ok" ELSE "err"

\* what the collaborators answer during the resolution and launch of a service
Oracles ==
  [localErr : BOOLEAN, remote : {"hit", "miss", "err"}, pullOk : BOOLEAN,
   buildOk : BOOLEAN, pkgOk : BOOLEAN]

\* -------------------------------------------------------------- resolution
platArchFromService(service) ==
  LET parts == SplitN2(service.Platform, "/")
  IN  IF Len(parts) # 2
      THEN [err |-> TRUE, plat |-> <<>>, arch |-> <<>>]
      ELSE [err |-> FALSE, plat |-> parts[1], arch |-> parts[2]]

\* the package a packaging under the name ref adds to the local catalog
KeyOfRef(ref, plat, arch) ==
  LET parts == SplitN2(ref, ":")
  IN  PkgKey(parts[1], IF Len(parts) = 2 THEN parts[2] ELSE Latest, plat, arch)

\* the build context of a service that declares one
BuildContext == <<".">>

\* results are [err, calls, local]: the error flag, the collaborator calls
\* made, and the local catalog afterwards
\* variant of noBuildContext: the build context is not looked at
noBuildContextNever(service) == FALSE

\* lines 361-363: service.Build == nil
noBuildContext(service) == ~service.Build

buildService(service, local, o) ==
  IF noBuildContext(service)
  THEN [err |-> TRUE, calls |-> <<>>, local |-> local]
  ELSE LET pa == platArchFromService(service)
       IN  IF pa.err
           THEN [err |-> TRUE, calls |-> <<>>, local |-> local]
           ELSE [err |-> ~o.buildOk,
                 calls |-> <<Call("Build", service.Name, BuildContext,
                                  PkgKey(<<>>, <<>>, pa.plat, pa.arch),
                                  Res(o.buildOk))>>,
                 local |-> local]

pkgService(service, local, o) ==
  LET pa == platArchFromService(service)
  IN  IF pa.err
      THEN [err |-> TRUE, calls |-> <<>>, local |-> local]
      ELSE [err |-> ~o.pkgOk,
            calls |-> <<Call("Package", service.Name, service.Image,
                             PkgKey(<<>>, <<>>, pa.plat, pa.arch),
                             Res(o.pkgOk))>>,
            local |-> IF o.pkgOk
                      THEN local \cup {KeyOfRef(service.Image, pa.plat, pa.arch)}
                      ELSE local]

\* lines 304-311: the reference split at its first ":"; "latest" when it
\* has no tag
imageName(image) == SplitN2(image, ":")[1]

imageVersion(image) ==
  LET parts == SplitN2(image, ":")
  IN  IF Len(parts) = 2 THEN parts[2] ELSE Latest

\* variant of NormalisedImage: the reference is left as declared
NormalisedImageUnchanged(image) == image

\* line 311: service.Image = imageName + ":" + imageVersion
NormalisedImage(image) == imageName(image) \o <<":">> \o imageVersion(image)

\* lines 315-320: the packages of the local catalog that match the filter
Catalog(local, key) == { k \in local : k = key }

\* variant of FoundLocally: the early return on a local match is missing
FoundLocallyNever(packages) == FALSE

\* lines 325-329: a local match ends the resolution
FoundLocally(packages) == packages # {}

\* variant of FoundRemotely: a remote match is not acted on
FoundRemotelyNever(answer) == FALSE

\* lines 344-350: a remote match is pulled
FoundRemotely(answer) == answer = "hit"

ensureServiceIsPackaged(service, local, o) ==
  LET pa == platArchFromService(service)
      svc == [service EXCEPT !.Image = NormalisedImage(service.Image)]
      key == PkgKey(imageName(service.Image), imageVersion(service.Image),
                    pa.plat, pa.arch)
      packages == Catalog(local, key)
      localQ == Call("Catalog", service.Name, <<>>, key,
                     IF o.localErr THEN "err"
                     ELSE IF packages # {} THEN "hit" ELSE "miss")
      remoteQ == Call("RemoteCatalog", service.Name, <<>>, key, o.remote)
  IN  IF pa.err
      THEN [err |-> TRUE, calls |-> <<>>, local |-> local]
      ELSE IF o.localErr
      THEN [err |-> TRUE, calls |-> <<localQ>>, local |-> local]
      ELSE IF FoundLocally(packages)
      THEN [err |-> FALSE, calls |-> <<localQ>>, local |-> local]
      ELSE IF o.remote = "err"
      THEN [err |-> TRUE, calls |-> <<localQ, remoteQ>>, local |-> local]
      ELSE IF FoundRemotely(o.remote)
      THEN [err |-> ~o.pullOk,
            calls |-> <<localQ, remoteQ,
                        Call("Pull", service.Name, svc.Image,
                             PkgKey(<<>>, <<>>, pa.plat, pa.arch),
                             Res(o.pullOk))>>,
            local |-> IF o.pullOk THEN local \cup {key} ELSE local]
      ELSE LET b == buildService(svc, local, o)
           IN  IF b.err
               THEN [err |-> TRUE, calls |-> <<localQ, remoteQ>> \o b.calls,
                     local |-> b.local]
               ELSE LET p == pkgService(svc, b.local, o)
                    IN  [err |-> p.err,
                         calls |-> <<localQ, remoteQ>> \o b.calls \o p.calls,
                         local |-> p.local]

\* --------------------------------------------------------- the Up pass: Run
NoRecord == [exists |-> FALSE, Networks |-> <<>>, Machines |-> <<>>]

NoService == [Name |-> "", Image |-> <<>>, Build |-> FALSE, Platform |-> <<>>]

NoOut == [returned |-> FALSE, err |-> FALSE, calls |-> <<>>, local |-> {}]

\* every order in which a range over a Go map may visit the keys in S
Orders(S) ==
  { f \in [1..Cardinality(S) -> S] : \A i, j \in 1..Cardinality(S) : f[i] = f[j] => i = j }

\* the image references of the projects of the Up pass
UpImages == { <<>>, <<"a">> }

Projects ==
  { p \in [Services : [1..Len(SvcOrder) -> Services], Networks : [NetNames -> BOOLEAN]] :
      \A i \in 1..Len(SvcOrder) :
        p.Services[i].Name = SvcOrder[i] /\ p.Services[i].Image \in UpImages }

\* the variables of a pass before Run starts
PassStart ==
  /\ pc = "start"
  /\ embeddedProject = NoRecord
  /\ projectNetworks = <<>>
  /\ projectMachines = <<>>
  /\ networks = {}
  /\ orderedNetworks = <<>>
  /\ machines = [s \in SvcNames |-> "absent"]
  /\ svcIdx = 0
  /\ logTask = [s \in SvcNames |-> "none"]
  /\ passErr = "nil"
  /\ trace = <<>>

\* ----------------------------------------------------- the watch: its data
\* (internal/cli/kraft/events/events.go)

\* the machines of the store, by UID, and their names
MachineIds == {"u1", "u2"}

MachineName(uid) == IF uid = "u1" THEN "m1" ELSE "m2"

\* the order of machines.Items in a listing
ListOrder == <<"u1", "u2">>

MachineStates == {"unknown", "starting", "running", "exited", "failed"}

\* the states a machine of the store can move to
NextStates(st) ==
  CASE st = "unknown" -> {"starting"}
    [] st = "starting" -> {"running", "failed"}
    [] st = "running" -> {"exited", "failed"}
    [] OTHER -> {}

\* the command line: no argument, a UID, or a name
Filters == { <<>>, <<"u1">>, <<"m2">> }

\* the observer goroutines: the one started at tick t for machine uid
ObsIds == (1..MaxTicks) \X MachineIds

\* status is "none" (not started), "spawned", "watching" or "exited"; seen is
\* the set of what the goroutine has handled so far, kept only when traced
NoObserver == [status |-> "none", seen |-> {}]

\* the watch before Run is called
WatchIdle ==
  /\ args = <<>>
  /\ quitTogether = FALSE
  /\ mstate = [u \in MachineIds |-> "unknown"]
  /\ observations = <<>>
  /\ wpc = "idle"
  /\ tick = 0
  /\ listed = <<>>
  /\ addIdx = 0
  /\ cancelled = FALSE
  /\ obs = [o \in ObsIds |-> NoObserver]
  /\ watchErr = "nil"
  /\ stop = "none"
  /\ lastOp = [u \in MachineIds |-> "none"]
  /\ traced = FALSE

\* ------------------------------------------ the SVR4 checksum: its data
\* (cpio/hash.go)

\* a uint32 is held as two 16-bit halves, value = hi * Half + lo
Half == 65536

ByteValues == 256

MaxOps == 3
MaxLen == 2

\* the bytes written in the model, and the slices of them
Bytes == {0, 1, 255}

ByteSlices == UNION { [1..n -> Bytes] : n \in 0..MaxLen }

U32(hi, lo) == [hi |-> hi, lo |-> lo]

\* variant of addByte: the carry out of the low half is lost
addByteNoCarry(sum, b) == U32(sum.hi, (sum.lo + (b % ByteValues)) % Half)

\* line 25: d.sum += uint32(b & 0xFF), on a uint32
addByte(sum, b) ==
  LET lo == sum.lo + (b % ByteValues)
  IN  U32((sum.hi + (lo \div Half)) % Half, lo % Half)

\* lines 24-26: the loop of Write over p
RECURSIVE writeBytes(_, _)
writeBytes(sum, p) ==
  IF p = <<>> THEN sum ELSE writeBytes(addByte(sum, Head(p)), Tail(p))

\* binary.LittleEndian.PutUint32
PutUint32(v) ==
  <<v.lo % ByteValues, v.lo \div ByteValues, v.hi % ByteValues, v.hi \div ByteValues>>

\* the sum of the byte values of p, as a number
RECURSIVE SumOf(_)
SumOf(p) == IF p = <<>> THEN 0 ELSE Head(p) + SumOf(Tail(p))

NoCall == [op |-> "none", arg |-> <<>>, n |-> 0, err |-> "nil", out |-> <<>>,
           val |-> U32(0, 0), before |-> U32(0, 0)]

\* no digest in use
HashIdle ==
  /\ hSum = U32(0, 0)
  /\ hTotal = U32(0, 0)
  /\ hRet = NoCall
  /\ hOps = MaxOps

\* a host with no network, no machine, no package and no record of the project
Init ==
  /\ project \in Projects
  /\ nets = {}
  /\ machs = [s \in SvcNames |-> "absent"]
  /\ localCatalog = {}
  /\ record = NoRecord
  /\ passes = 1
  /\ PassStart
  /\ rService = NoService
  /\ rLocal = {}
  /\ rOut = NoOut
  /\ HashIdle
  /\ WatchIdle

\* Run returns err
Fail(why) ==
  /\ pc' = "failed"
  /\ passErr' = why

\* lines 83-104: load the project, Validate, AssignIPs, open the controller
Validate ==
  /\ pc = "start"
  /\ \/ pc' = "get" /\ passErr' = passErr
     \/ Fail("validate")
  /\ UNCHANGED <<resolveVars, watchVars, hashVars>>
  /\ UNCHANGED <<project, nets, machs, localCatalog, record, passes,
                 embeddedProject, projectNetworks, projectMachines, networks,
                 orderedNetworks, machines, svcIdx, logTask, trace>>

\* variant of ownedAtStart: the pass starts from nothing and overwrites
ownedAtStartNone(rec, owned) == <<>>

\* lines 115-118, 186-189: the owned networks and machines of the pass start
\* from those of the record read
ownedAtStart(rec, owned) == IF rec.exists THEN owned ELSE <<>>

\* lines 106-118: read the persisted record; the owned networks start from it
GetComposite ==
  /\ pc = "get"
  /\ \/ /\ embeddedProject' = record
        /\ projectNetworks' = ownedAtStart(record, record.Networks)
        /\ pc' = "listnets"
        /\ passErr' = passErr
     \/ /\ Fail("get")
        /\ UNCHANGED <<embeddedProject, projectNetworks>>
  /\ UNCHANGED <<resolveVars, watchVars, hashVars>>
  /\ UNCHANGED <<project, nets, machs, localCatalog, record, passes,
                 projectMachines, networks, orderedNetworks, machines, svcIdx,
                 logTask, trace>>

\* variant of OrderedNetworks: the networks in the order of the map range
OrderedNetworksAnyOrder(p) == Orders(NetNames)

\* lines 132-142: the declared networks with a subnet, then those without;
\* the range over the map project.Networks visits them in any order
OrderedNetworks(p) ==
  { subnetNetworks \o emptyNetworks :
      subnetNetworks \in Orders({ n \in NetNames : p.Networks[n] }),
      emptyNetworks \in Orders({ n \in NetNames : ~p.Networks[n] }) }

\* lines 120-142: list the networks, then order the declared networks
ListNetworks ==
  /\ pc = "listnets"
  /\ \/ /\ networks' = nets
        /\ orderedNetworks' \in OrderedNetworks(project)
        /\ pc' = "nets"
        /\ passErr' = passErr
     \/ /\ Fail("listnets")
        /\ UNCHANGED <<networks, orderedNetworks>>
  /\ UNCHANGED <<resolveVars, watchVars, hashVars>>
  /\ UNCHANGED <<project, nets, machs, localCatalog, record, passes,
                 embeddedProject, projectNetworks, projectMachines, machines,
                 svcIdx, logTask, trace>>

\* lines 144-184: one iteration of the loop over orderedNetworks
NetworkStep ==
  /\ pc = "nets"
  /\ orderedNetworks # <<>>
  /\ LET networkName == Head(orderedNetworks)
     IN  \/ /\ networkName \in networks          \* alreadyRunning: continue
            /\ orderedNetworks' = Tail(orderedNetworks)
            /\ UNCHANGED <<nets, projectNetworks, pc, passErr, trace>>
         \/ /\ networkName \notin networks       \* Create fails: return err
            /\ trace' = Append(trace, Call("Create", networkName, <<>>, NoKey, "err"))
            /\ Fail("create")
            /\ UNCHANGED <<nets, projectNetworks, orderedNetworks>>
         \/ /\ networkName \notin networks       \* Create, then Get
            /\ \E got \in {"up", "down"} :
                 /\ nets' = nets \cup {networkName}
                 /\ trace' = trace \o
                      <<Call("Create", networkName, <<>>, NoKey, "ok"),
                        Call("NetworkGet", networkName, <<>>, NoKey, got)>>
                 /\ projectNetworks' =
                      IF got = "up" THEN Append(projectNetworks, networkName)
                      ELSE projectNetworks
            /\ orderedNetworks' = Tail(orderedNetworks)
            /\ UNCHANGED <<pc, passErr>>
  /\ UNCHANGED <<resolveVars, watchVars, hashVars>>
  /\ UNCHANGED <<project, machs, localCatalog, record, passes, embeddedProject,
                 projectMachines, networks, machines, svcIdx, logTask>>

\* lines 186-200: the owned machines start from the record; list the machines
ListMachines ==
  /\ pc = "nets"
  /\ orderedNetworks = <<>>
  /\ \/ /\ projectMachines' = ownedAtStart(embeddedProject, embeddedProject.Machines)
        /\ machines' = machs
        /\ svcIdx' = 1
        /\ pc' = "svc"
        /\ passErr' = passErr
     \/ /\ Fail("listmachines")
        /\ UNCHANGED <<projectMachines, machines, svcIdx>>
  /\ UNCHANGED <<resolveVars, watchVars, hashVars>>
  /\ UNCHANGED <<project, nets, machs, localCatalog, record, passes,
                 embeddedProject, projectNetworks, networks, orderedNetworks,
                 logTask, trace>>

\* lines 396-424: the Launch call runService makes, none on a platform error
runService(service, ok) ==
  IF platArchFromService(service).err THEN <<>>
  ELSE <<Call("Launch", service.Name,
              IF service.Image # <<>> THEN service.Image ELSE BuildContext,
              NoKey, Res(ok))>>

\* lines 223-231: build a service without an image, resolve one with an image
resolve(service, local, o) ==
  IF service.Image = <<>>
  THEN buildService(service, local, o)
  ELSE ensureServiceIsPackaged(service, local, o)

\* variant of alreadyRunning: the state of the listed machine is not looked at
alreadyRunningNever(service, listing) == FALSE

\* lines 204-207: the listing holds a same-named machine that is running
alreadyRunning(service, listing) == listing[service.Name] = "running"

\* variant of stale: a listed machine that is not running is left in place
staleNever(service, listing) == FALSE

\* lines 204-216: the listing holds a same-named machine that is not running
stale(service, listing) ==
  listing[service.Name] # "absent" /\ ~alreadyRunning(service, listing)

\* lines 202-222: look the service up in the listing; skip it when it is
\* running, remove a stale instance
ServiceCheck ==
  /\ pc = "svc"
  /\ svcIdx <= Len(project.Services)
  /\ LET service == project.Services[svcIdx]
     IN  \/ /\ alreadyRunning(service, machines)     \* continue
            /\ svcIdx' = svcIdx + 1
            /\ UNCHANGED <<machs, pc, passErr, trace>>
         \/ /\ ~alreadyRunning(service, machines)
            /\ ~stale(service, machines)
            /\ pc' = "resolve"
            /\ UNCHANGED <<machs, svcIdx, passErr, trace>>
         \/ /\ stale(service, machines)              \* rmOpts.Run succeeds
            /\ machs' = [machs EXCEPT ![service.Name] = "absent"]
            /\ trace' = Append(trace, Call("Remove", service.Name, <<>>, NoKey, "ok"))
            /\ pc' = "resolve"
            /\ UNCHANGED <<svcIdx, passErr>>
         \/ /\ stale(service, machines)              \* rmOpts.Run fails
            /\ trace' = Append(trace, Call("Remove", service.Name, <<>>, NoKey, "err"))
            /\ Fail("remove")
            /\ UNCHANGED <<machs, svcIdx>>
  /\ UNCHANGED <<resolveVars, watchVars, hashVars>>
  /\ UNCHANGED <<project, nets, localCatalog, record, passes, embeddedProject,
                 projectNetworks, projectMachines, networks, orderedNetworks,
                 machines, logTask>>

\* lines 223-231: resolve the artifact; an error is returned by Run
ServiceResolve ==
  /\ pc = "resolve"
  /\ \E o \in Oracles :
       LET r == resolve(project.Services[svcIdx], localCatalog, o)
       IN  /\ trace' = trace \o r.calls \o
                <<Call("Resolved", project.Services[svcIdx].Name, <<>>, NoKey,
                       Res(~r.err))>>
           /\ localCatalog' = r.local
           /\ IF r.err THEN Fail("resolve")
              ELSE pc' = "run" /\ passErr' = passErr
  /\ UNCHANGED <<resolveVars, watchVars, hashVars>>
  /\ UNCHANGED <<project, nets, machs, record, passes, embeddedProject,
                 projectNetworks, projectMachines, networks, orderedNetworks,
                 machines, svcIdx, logTask>>

\* variant of runErrorReturned: Run returns the error of runService
runErrorReturnedAlways(err) == err

\* lines 233-235: the error of runService is logged, Run does not return it
runErrorReturned(err) == FALSE

\* what Launch can leave behind: a started machine runs or has exited at the
\* re-fetch; a failed Launch leaves no machine, or one that runs all the same
LaunchOutcomes ==
  { <<TRUE, "running">>, <<TRUE, "exited">>, <<FALSE, "absent">>, <<FALSE, "running">> }

\* lines 233-243: launch, log a failure, re-fetch the machine and own it
\* when it is running
ServiceRun ==
  /\ pc = "run"
  /\ \E out \in LaunchOutcomes :
       LET service == project.Services[svcIdx]
           launch == runService(service, out[1])
           err == launch = <<>> \/ ~out[1]
           now == IF launch = <<>> THEN machs[service.Name] ELSE out[2]
           got == IF now = "absent" THEN "err" ELSE now
       IN  /\ machs' = [machs EXCEPT ![service.Name] = now]
           /\ IF runErrorReturned(err)
              THEN /\ trace' = trace \o launch
                   /\ Fail("run")
                   /\ UNCHANGED <<projectMachines, svcIdx>>
              ELSE /\ trace' = trace \o launch \o
                        <<Call("MachineGet", service.Name, <<>>, NoKey, got)>>
                   /\ projectMachines' =
                        IF got = "running" THEN Append(projectMachines, service.Name)
                        ELSE projectMachines
                   /\ svcIdx' = svcIdx + 1
                   /\ pc' = "svc"
                   /\ passErr' = passErr
  /\ UNCHANGED <<resolveVars, watchVars, hashVars>>
  /\ UNCHANGED <<project, nets, localCatalog, record, passes, embeddedProject,
                 projectNetworks, networks, orderedNetworks, machines, logTask>>

\* variant of UpdateComposite: the record is persisted after each service
UpdateCompositeEachService ==
  /\ pc = "svc"
  /\ svcIdx > Len(project.Services) \/ trace = <<>> \/ trace[Len(trace)].op # "Update"
  /\ record' = [exists |-> TRUE, Networks |-> projectNetworks,
                Machines |-> projectMachines]
  /\ trace' = Append(trace, Call("Update", "project", <<>>, NoKey, "ok"))
  /\ pc' = IF svcIdx > Len(project.Services) THEN "logs" ELSE pc
  /\ UNCHANGED <<resolveVars, watchVars, hashVars>>
  /\ UNCHANGED <<project, nets, machs, localCatalog, passes, embeddedProject,
                 projectNetworks, projectMachines, networks, orderedNetworks,
                 machines, svcIdx, logTask, passErr>>

\* lines 246-260: persist the record once the loops are over
UpdateComposite ==
  /\ pc = "svc"
  /\ svcIdx > Len(project.Services)
  /\ \/ /\ record' = [exists |-> TRUE, Networks |-> projectNetworks,
                      Machines |-> projectMachines]
        /\ trace' = Append(trace, Call("Update", "project", <<>>, NoKey, "ok"))
        /\ pc' = "logs"
        /\ passErr' = passErr
     \/ /\ trace' = Append(trace, Call("Update", "project", <<>>, NoKey, "err"))
        /\ Fail("update")
        /\ UNCHANGED record
  /\ UNCHANGED <<resolveVars, watchVars, hashVars>>
  /\ UNCHANGED <<project, nets, machs, localCatalog, passes, embeddedProject,
                 projectNetworks, projectMachines, networks, orderedNetworks,
                 machines, svcIdx, logTask>>

\* lines 262-279: start one log-tailing goroutine per declared service
StartLogs ==
  /\ pc = "logs"
  /\ logTask' = [s \in SvcNames |-> "running"]
  /\ pc' = "wait"
  /\ UNCHANGED <<resolveVars, watchVars, hashVars>>
  /\ UNCHANGED <<project, nets, machs, localCatalog, record, passes,
                 embeddedProject, projectNetworks, projectMachines, networks,
                 orderedNetworks, machines, svcIdx, passErr, trace>>

\* lines 272-278, 426-441: a goroutine's logService returns, with or without
\* an error; the error is logged
LogService(i) ==
  /\ pc = "wait"
  /\ logTask[SvcOrder[i]] = "running"
  /\ \E ok \in BOOLEAN :
       /\ platArchFromService(project.Services[i]).err => ~ok
       /\ logTask' = [logTask EXCEPT ![SvcOrder[i]] = IF ok THEN "done" ELSE "failed"]
  /\ UNCHANGED <<resolveVars, watchVars, hashVars>>
  /\ UNCHANGED <<project, nets, machs, localCatalog, record, pc, passes,
                 embeddedProject, projectNetworks, projectMachines, networks,
                 orderedNetworks, machines, svcIdx, passErr, trace>>

\* variant of WaitLogs: Run returns as soon as one goroutine has returned
WaitLogsAny ==
  /\ pc = "wait"
  /\ \E s \in SvcNames : logTask[s] \in {"done", "failed"}
  /\ pc' = "done"
  /\ UNCHANGED <<resolveVars, watchVars, hashVars>>
  /\ UNCHANGED <<project, nets, machs, localCatalog, record, passes,
                 embeddedProject, projectNetworks, projectMachines, networks,
                 orderedNetworks, machines, svcIdx, logTask, passErr, trace>>

\* lines 281-283: wg.Wait, return nil
WaitLogs ==
  /\ pc = "wait"
  /\ \A s \in SvcNames : logTask[s] \in {"done", "failed"}
  /\ pc' = "done"
  /\ UNCHANGED <<resolveVars, watchVars, hashVars>>
  /\ UNCHANGED <<project, nets, machs, localCatalog, record, passes,
                 embeddedProject, projectNetworks, projectMachines, networks,
                 orderedNetworks, machines, svcIdx, logTask, passErr, trace>>

\* Run has returned
Returned == pc \in {"done", "failed"}

\* the command is invoked again on the same project
NextPass ==
  /\ Returned
  /\ passes < MaxPasses
  /\ passes' = passes + 1
  /\ pc' = "start"
  /\ embeddedProject' = NoRecord
  /\ projectNetworks' = <<>>
  /\ projectMachines' = <<>>
  /\ networks' = {}
  /\ orderedNetworks' = <<>>
  /\ machines' = [s \in SvcNames |-> "absent"]
  /\ svcIdx' = 0
  /\ logTask' = [s \in SvcNames |-> "none"]
  /\ passErr' = "nil"
  /\ trace' = <<>>
  /\ UNCHANGED <<resolveVars, watchVars, hashVars>>
  /\ UNCHANGED <<project, nets, machs, localCatalog, record>>

Next ==
  \/ Validate
  \/ GetComposite
  \/ ListNetworks
  \/ NetworkStep
  \/ ListMachines
  \/ ServiceCheck
  \/ ServiceResolve
  \/ ServiceRun
  \/ UpdateComposite
  \/ StartLogs
  \/ \E i \in 1..Len(SvcOrder) : LogService(i)
  \/ WaitLogs
  \/ NextPass

Spec == Init /\ [][Next]_vars

\* ------------------------------ passes with changes made outside the tool
\* a project of two services with an image and two networks without a subnet
InitExternal ==
  /\ Init
  /\ \A i \in 1..Len(SvcOrder) :
       /\ project.Services[i].Image = <<"a">>
       /\ ~project.Services[i].Build
       /\ project.Services[i].Platform = <<"q", "/", "x">>
  /\ \A n \in NetNames : ~project.Networks[n]

\* between two passes a running machine exits
MachineExits(s) ==
  /\ Returned
  /\ passes < MaxPasses
  /\ machs[s] = "running"
  /\ machs' = [machs EXCEPT ![s] = "exited"]
  /\ UNCHANGED <<resolveVars, watchVars, hashVars>>
  /\ UNCHANGED <<project, nets, localCatalog, record, pc, passes,
                 embeddedProject, projectNetworks, projectMachines, networks,
                 orderedNetworks, machines, svcIdx, logTask, passErr, trace>>

\* between two passes a machine is removed with another tool
MachineDeleted(s) ==
  /\ Returned
  /\ passes < MaxPasses
  /\ machs[s] # "absent"
  /\ machs' = [machs EXCEPT ![s] = "absent"]
  /\ UNCHANGED <<resolveVars, watchVars, hashVars>>
  /\ UNCHANGED <<project, nets, localCatalog, record, pc, passes,
                 embeddedProject, projectNetworks, projectMachines, networks,
                 orderedNetworks, machines, svcIdx, logTask, passErr, trace>>

\* between two passes a network is removed with another tool
NetworkDeleted(n) ==
  /\ Returned
  /\ passes < MaxPasses
  /\ n \in nets
  /\ nets' = nets \ {n}
  /\ UNCHANGED <<resolveVars, watchVars, hashVars>>
  /\ UNCHANGED <<project, machs, localCatalog, record, pc, passes,
                 embeddedProject, projectNetworks, projectMachines, networks,
                 orderedNetworks, machines, svcIdx, logTask, passErr, trace>>

NextExternal ==
  \/ Validate
  \/ GetComposite
  \/ ListNetworks
  \/ NetworkStep
  \/ ListMachines
  \/ ServiceCheck
  \/ ServiceResolve
  \/ ServiceRun
  \/ UpdateComposite
  \/ StartLogs
  \/ \E i \in 1..Len(SvcOrder) : LogService(i)
  \/ WaitLogs
  \/ NextPass
  \/ \E s \in SvcNames : MachineExits(s)
  \/ \E s \in SvcNames : MachineDeleted(s)
  \/ \E n \in NetNames : NetworkDeleted(n)

SpecExternal == InitExternal /\ [][NextExternal]_vars

\* ------------------------------------------------------ the SVR4 checksum
\* the checksums a digest may hold when the calls begin: that of a new hash,
\* and those reached by earlier writes, up to the largest uint32
StartSums == { U32(0, 0), U32(0, Half - 1), U32(Half - 1, Half - ByteValues),
               U32(Half - 1, Half - 1) }

InitHash ==
  /\ project = [Services |-> <<>>, Networks |-> <<>>]
  /\ nets = {}
  /\ machs = [s \in SvcNames |-> "absent"]
  /\ localCatalog = {}
  /\ record = NoRecord
  /\ passes = 1
  /\ PassStart
  /\ rService = NoService
  /\ rLocal = {}
  /\ rOut = NoOut
  /\ WatchIdle
  /\ hSum \in StartSums
  /\ hTotal = hSum
  /\ hRet = NoCall
  /\ hOps = 0

\* lines 18-20: a new digest
NewHash ==
  /\ hOps < MaxOps
  /\ hSum' = U32(0, 0)
  /\ hTotal' = U32(0, 0)
  /\ hRet' = [NoCall EXCEPT !.op = "NewHash", !.before = hSum]
  /\ hOps' = hOps + 1
  /\ UNCHANGED <<upVars, resolveVars, watchVars>>

\* lines 22-28: Write adds every byte of p and returns len(p), nil
Write(p) ==
  /\ hOps < MaxOps
  /\ hSum' = writeBytes(hSum, p)
  /\ hTotal' = LET t == hTotal.lo + SumOf(p)
               IN  U32(hTotal.hi + (t \div Half), t % Half)
  /\ hRet' = [NoCall EXCEPT !.op = "Write", !.arg = p, !.n = Len(p),
                            !.before = hSum]
  /\ hOps' = hOps + 1
  /\ UNCHANGED <<upVars, resolveVars, watchVars>>

\* lines 30-34: Sum appends the four bytes of the checksum to b
Sum(b) ==
  /\ hOps < MaxOps
  /\ hRet' = [NoCall EXCEPT !.op = "Sum", !.arg = b, !.out = b \o PutUint32(hSum),
                            !.before = hSum]
  /\ hOps' = hOps + 1
  /\ UNCHANGED <<hSum, hTotal>>
  /\ UNCHANGED <<upVars, resolveVars, watchVars>>

\* lines 36-38
Sum32 ==
  /\ hOps < MaxOps
  /\ hRet' = [NoCall EXCEPT !.op = "Sum32", !.val = hSum, !.before = hSum]
  /\ hOps' = hOps + 1
  /\ UNCHANGED <<hSum, hTotal>>
  /\ UNCHANGED <<upVars, resolveVars, watchVars>>

\* lines 40-42
Reset ==
  /\ hOps < MaxOps
  /\ hSum' = U32(0, 0)
  /\ hTotal' = U32(0, 0)
  /\ hRet' = [NoCall EXCEPT !.op = "Reset", !.before = hSum]
  /\ hOps' = hOps + 1
  /\ UNCHANGED <<upVars, resolveVars, watchVars>>

NextHash ==
  \/ NewHash
  \/ \E p \in ByteSlices : Write(p)
  \/ \E b \in ByteSlices : Sum(b)
  \/ Sum32
  \/ Reset

SpecHash == InitHash /\ [][NextHash]_vars

\* ------------------------------------- ensureServiceIsPackaged on its own
InitResolve ==
  /\ project = [Services |-> <<>>, Networks |-> <<>>]
  /\ nets = {}
  /\ machs = [s \in SvcNames |-> "absent"]
  /\ localCatalog = {}
  /\ record = NoRecord
  /\ passes = 1
  /\ PassStart
  /\ HashIdle
  /\ rService \in { s \in Services : s.Image # <<>> }
  /\ rLocal \in SUBSET PkgKeys
  /\ rOut = NoOut
  /\ HashIdle
  /\ WatchIdle

\* lines 298-358: one call of ensureServiceIsPackaged
Resolve ==
  /\ ~rOut.returned
  /\ \E o \in Oracles :
       LET r == ensureServiceIsPackaged(rService, rLocal, o)
       IN  rOut' = [returned |-> TRUE, err |-> r.err, calls |-> r.calls,
                    local |-> r.local]
  /\ UNCHANGED <<rService, rLocal>>
  /\ UNCHANGED <<upVars, watchVars, hashVars>>

SpecResolve == InitResolve /\ [][Resolve]_vars

\* ------------------------------------------------- the watch: EventOptions.Run
\* the registry `observations` (line 71): a waitgroup.WaitGroup, whose source
\* is outside the files modelled; its operations are taken as atomic and
\* keyed by the identity of the machine: Add of a registered machine and Done
\* of an unregistered one change nothing
Contains(items, uid) == \E i \in DOMAIN items : items[i] = uid

\* variant of Add: the item is appended whether or not it is present
AddAlways(items, uid) == Append(items, uid)

Add(items, uid) == IF Contains(items, uid) THEN items ELSE Append(items, uid)

\* variant of Done: nothing is removed
DoneNothing(items, uid) == items

Done(items, uid) == SelectSeq(items, LAMBDA x : x # uid)

InitWatch ==
  /\ project = [Services |-> <<>>, Networks |-> <<>>]
  /\ nets = {}
  /\ machs = [s \in SvcNames |-> "absent"]
  /\ localCatalog = {}
  /\ record = NoRecord
  /\ passes = 1
  /\ PassStart
  /\ rService = NoService
  /\ rLocal = {}
  /\ rOut = NoOut
  /\ HashIdle
  /\ args \in Filters
  /\ quitTogether \in BOOLEAN
  /\ mstate \in [MachineIds -> MachineStates]
  /\ observations = <<>>
  /\ wpc = "seek"
  /\ tick = 0
  /\ listed = <<>>
  /\ addIdx = 0
  /\ cancelled = FALSE
  /\ obs = [o \in ObsIds |-> NoObserver]
  /\ watchErr = "nil"
  /\ stop = "none"
  /\ lastOp = [u \in MachineIds |-> "none"]
  /\ traced = FALSE

\* the watch of one machine named on the command line, with the observers'
\* handled events recorded
InitObserve ==
  /\ project = [Services |-> <<>>, Networks |-> <<>>]
  /\ nets = {}
  /\ machs = [s \in SvcNames |-> "absent"]
  /\ localCatalog = {}
  /\ record = NoRecord
  /\ passes = 1
  /\ PassStart
  /\ rService = NoService
  /\ rLocal = {}
  /\ rOut = NoOut
  /\ HashIdle
  /\ args \in Filters \ {<<>>}
  /\ quitTogether \in BOOLEAN
  /\ mstate \in [MachineIds -> MachineStates]
  /\ observations = <<>>
  /\ wpc = "seek"
  /\ tick = 0
  /\ listed = <<>>
  /\ addIdx = 0
  /\ cancelled = FALSE
  /\ obs = [o \in ObsIds |-> NoObserver]
  /\ watchErr = "nil"
  /\ stop = "none"
  /\ lastOp = [u \in MachineIds |-> "none"]
  /\ traced = TRUE

\* what a goroutine has handled, h, extended by x
Record(h, x) == IF traced THEN h \cup {x} ELSE h

\* lines 151-154: the signal handler calls cancel
CtrlC ==
  /\ wpc # "returned"
  /\ ~cancelled
  /\ cancelled' = TRUE
  /\ UNCHANGED <<args, quitTogether, mstate, observations, wpc, tick, listed,
                 addIdx, obs, watchErr, stop, lastOp>>
  /\ UNCHANGED <<upVars, resolveVars, traced, hashVars>>

\* a machine of the store changes state, driven from outside the watch
MachineChanges(uid) ==
  /\ wpc # "returned"
  /\ \E st \in NextStates(mstate[uid]) : mstate' = [mstate EXCEPT ![uid] = st]
  /\ UNCHANGED <<args, quitTogether, observations, wpc, tick, listed, addIdx,
                 cancelled, obs, watchErr, stop, lastOp>>
  /\ UNCHANGED <<upVars, resolveVars, traced, hashVars>>

\* lines 165-170: the loop ends when the context is done
Seek ==
  /\ wpc = "seek"
  /\ IF cancelled
     THEN wpc' = "wait" /\ stop' = "ctx"
     ELSE wpc' = "list" /\ stop' = stop
  /\ UNCHANGED <<args, quitTogether, mstate, observations, tick, listed,
                 addIdx, cancelled, obs, watchErr, lastOp>>
  /\ UNCHANGED <<upVars, resolveVars, traced, hashVars>>

\* variant of List: the error of the listing is kept and the loop goes on
\* with no machine listed
ListIgnoringError ==
  /\ wpc = "list"
  /\ tick < MaxTicks
  /\ \/ /\ listed' = [i \in 1..Len(ListOrder) |->
                       [UID |-> ListOrder[i], State |-> mstate[ListOrder[i]]]]
        /\ watchErr' = watchErr
     \/ /\ listed' = <<>>
        /\ watchErr' = "list"
  /\ addIdx' = 1
  /\ tick' = tick + 1
  /\ wpc' = "add"
  /\ UNCHANGED <<args, quitTogether, mstate, observations, cancelled, obs,
                 stop, lastOp>>
  /\ UNCHANGED <<upVars, resolveVars, traced, hashVars>>

\* lines 172-175: list the machines; an error is returned at once
List ==
  /\ wpc = "list"
  /\ tick < MaxTicks
  /\ \/ /\ listed' = [i \in 1..Len(ListOrder) |->
                       [UID |-> ListOrder[i], State |-> mstate[ListOrder[i]]]]
        /\ addIdx' = 1
        /\ tick' = tick + 1
        /\ wpc' = "add"
        /\ watchErr' = watchErr
     \/ /\ watchErr' = "list"
        /\ wpc' = "returned"
        /\ UNCHANGED <<listed, addIdx, tick>>
  /\ UNCHANGED <<args, quitTogether, mstate, observations, cancelled, obs,
                 stop, lastOp>>
  /\ UNCHANGED <<upVars, resolveVars, traced, hashVars>>

\* line 178: no argument, or the argument is the UID or the name
matches(a, uid) == Len(a) = 0 \/ a[1] = uid \/ a[1] = MachineName(uid)

\* lines 179-187: with --quit-together a failed, exited or unknown machine is
\* passed over
skippedNever(st, quit) == FALSE

skipped(st, quit) == st \in {"failed", "exited", "unknown"} /\ quit

admitted(a, quit, machine) == matches(a, machine.UID) /\ ~skipped(machine.State, quit)

\* lines 177-191: one iteration of the loop over machines.Items
AddMachine ==
  /\ wpc = "add"
  /\ addIdx <= Len(listed)
  /\ LET machine == listed[addIdx]
     IN  IF admitted(args, quitTogether, machine)
         THEN /\ observations' = Add(observations, machine.UID)
              /\ lastOp' = [lastOp EXCEPT ![machine.UID] = "add"]
         ELSE UNCHANGED <<observations, lastOp>>
  /\ addIdx' = addIdx + 1
  /\ UNCHANGED <<args, quitTogether, mstate, wpc, tick, listed, cancelled,
                 obs, watchErr, stop>>
  /\ UNCHANGED <<upVars, resolveVars, traced, hashVars>>

\* variant of quitNow: the empty registry does not end the loop
quitNowNever(items, quit) == FALSE

\* line 193
quitNow(items, quit) == Len(items) = 0 /\ quit

\* lines 193-196: cancel and leave the loop when nothing is observed
QuitCheck ==
  /\ wpc = "add"
  /\ addIdx > Len(listed)
  /\ IF quitNow(observations, quitTogether)
     THEN cancelled' = TRUE /\ stop' = "empty" /\ wpc' = "wait"
     ELSE wpc' = "spawn" /\ UNCHANGED <<cancelled, stop>>
  /\ listed' = <<>>
  /\ addIdx' = 0
  /\ UNCHANGED <<args, quitTogether, mstate, observations, tick, obs,
                 watchErr, lastOp>>
  /\ UNCHANGED <<upVars, resolveVars, traced, hashVars>>

\* lines 198-231: a goroutine is started for every item of the registry
Spawn ==
  /\ wpc = "spawn"
  /\ obs' = [o \in ObsIds |->
               IF o[1] = tick /\ Contains(observations, o[2])
               THEN [status |-> "spawned", seen |-> {}]
               ELSE obs[o]]
  /\ wpc' = "sleep"
  /\ UNCHANGED <<args, quitTogether, mstate, observations, tick, listed,
                 addIdx, cancelled, watchErr, stop, lastOp>>
  /\ UNCHANGED <<upVars, resolveVars, traced, hashVars>>

\* line 233
Sleep ==
  /\ wpc = "sleep"
  /\ wpc' = "seek"
  /\ UNCHANGED <<args, quitTogether, mstate, observations, tick, listed,
                 addIdx, cancelled, obs, watchErr, stop, lastOp>>
  /\ UNCHANGED <<upVars, resolveVars, traced, hashVars>>

\* lines 236-238: observations.Wait returns once the registry is empty
Wait ==
  /\ wpc = "wait"
  /\ observations = <<>>
  /\ wpc' = "returned"
  /\ UNCHANGED <<args, quitTogether, mstate, observations, tick, listed,
                 addIdx, cancelled, obs, watchErr, stop, lastOp>>
  /\ UNCHANGED <<upVars, resolveVars, traced, hashVars>>

\* lines 202-206: controller.Watch opens the streams, or fails
ObserverOpens(o) ==
  /\ wpc # "returned"
  /\ obs[o].status = "spawned"
  /\ \/ obs' = [obs EXCEPT ![o].status = "watching"]
     \/ obs' = [obs EXCEPT ![o] = [status |-> "exited",
                                  seen |-> Record(obs[o].seen, "openerr")]]
  /\ UNCHANGED <<args, quitTogether, mstate, observations, wpc, tick, listed,
                 addIdx, cancelled, watchErr, stop, lastOp>>
  /\ UNCHANGED <<upVars, resolveVars, traced, hashVars>>

\* variant of isTerminal: no state ends the observation
isTerminalNever(st) == FALSE

\* line 214
isTerminal(st) == st \in {"exited", "failed"}

\* lines 211-217: an event carries the state of the machine
ObserverEvent(o) ==
  /\ wpc # "returned"
  /\ obs[o].status = "watching"
  /\ LET st == mstate[o[2]]
     IN  IF isTerminal(st)
         THEN /\ observations' = Done(observations, o[2])
              /\ lastOp' = [lastOp EXCEPT ![o[2]] = "remove"]
              /\ obs' = [obs EXCEPT ![o] = [status |-> "exited",
                                           seen |-> Record(obs[o].seen, st)]]
         ELSE /\ obs' = [obs EXCEPT ![o].seen = Record(obs[o].seen, st)]
              /\ UNCHANGED <<observations, lastOp>>
  /\ UNCHANGED <<args, quitTogether, mstate, wpc, tick, listed, addIdx,
                 cancelled, watchErr, stop>>
  /\ UNCHANGED <<upVars, resolveVars, traced, hashVars>>

\* lines 219-223: an error of the stream; the loop goes on
ObserverError(o) ==
  /\ wpc # "returned"
  /\ obs[o].status = "watching"
  /\ observations' = Done(observations, o[2])
  /\ lastOp' = [lastOp EXCEPT ![o[2]] = "remove"]
  /\ obs' = [obs EXCEPT ![o].seen = Record(obs[o].seen, "error")]
  /\ UNCHANGED <<args, quitTogether, mstate, wpc, tick, listed, addIdx,
                 cancelled, watchErr, stop>>
  /\ UNCHANGED <<upVars, resolveVars, traced, hashVars>>

\* variant of ObserverCancelled: the removal forced by the cancellation also
\* stops the machine
ObserverCancelledStops(o) ==
  /\ wpc # "returned"
  /\ obs[o].status = "watching"
  /\ cancelled
  /\ observations' = Done(observations, o[2])
  /\ lastOp' = [lastOp EXCEPT ![o[2]] = "remove"]
  /\ obs' = [obs EXCEPT ![o] = [status |-> "exited",
                               seen |-> Record(obs[o].seen, "cancel")]]
  /\ mstate' = [mstate EXCEPT ![o[2]] = "exited"]
  /\ UNCHANGED <<args, quitTogether, wpc, tick, listed, addIdx,
                 cancelled, watchErr, stop>>
  /\ UNCHANGED <<upVars, resolveVars, traced, hashVars>>

\* lines 225-227: the context is done
ObserverCancelled(o) ==
  /\ wpc # "returned"
  /\ obs[o].status = "watching"
  /\ cancelled
  /\ observations' = Done(observations, o[2])
  /\ lastOp' = [lastOp EXCEPT ![o[2]] = "remove"]
  /\ obs' = [obs EXCEPT ![o] = [status |-> "exited",
                               seen |-> Record(obs[o].seen, "cancel")]]
  /\ UNCHANGED <<args, quitTogether, mstate, wpc, tick, listed, addIdx,
                 cancelled, watchErr, stop>>
  /\ UNCHANGED <<upVars, resolveVars, traced, hashVars>>

NextWatch ==
  \/ CtrlC
  \/ \E uid \in MachineIds : MachineChanges(uid)
  \/ Seek
  \/ List
  \/ AddMachine
  \/ QuitCheck
  \/ Spawn
  \/ Sleep
  \/ Wait
  \/ \E o \in ObsIds : ObserverOpens(o)
  \/ \E o \in ObsIds : ObserverEvent(o)
  \/ \E o \in ObsIds : ObserverError(o)
  \/ \E o \in ObsIds : ObserverCancelled(o)

SpecWatch == InitWatch /\ [][NextWatch]_vars

SpecObserve == InitObserve /\ [][NextWatch]_vars

\* ------------------------------------------------------ reading the trace
TraceHas(op, who, res) ==
  \E i \in DOMAIN trace :
    trace[i].op = op /\ trace[i].who = who /\ trace[i].res = res

Called(op, who) == \E i \in DOMAIN trace : trace[i].op = op /\ trace[i].who = who

Occurrences(seq, x) == Cardinality({ i \in DOMAIN seq : seq[i] = x })

IsPrefix(a, b) == Len(a) <= Len(b) /\ SubSeq(b, 1, Len(a)) = a

IndexOfService(s) == CHOOSE k \in 1..Len(SvcOrder) : SvcOrder[k] = s

\* the calls that resolve an artifact
ResolveOps == {"Catalog", "RemoteCatalog", "Pull", "Build", "Package", "Resolved"}

\* ------------------------------------------------------------------ claims

\* C1: a pass whose network listing holds every declared network and whose
\* machine listing holds a running instance of every declared service makes
\* no network Create, no instance Remove and no Launch.
AllPresentAndRunning ==
  /\ NetNames \subseteq networks
  /\ \A s \in SvcNames : machines[s] = "running"

C1_Idempotence ==
  AllPresentAndRunning =>
    \A i \in DOMAIN trace : trace[i].op \notin {"Create", "Remove", "Launch"}

C1_Witness == AllPresentAndRunning /\ passes = 2 /\ pc = "done"

\* C2: within a pass, no Create of a network without a subnet comes before a
\* Create of a network with one.
C2_SubnetNetworksFirst ==
  \A i, j \in DOMAIN trace :
    (i < j /\ trace[i].op = "Create" /\ trace[j].op = "Create")
      => ~(~project.Networks[trace[i].who] /\ project.Networks[trace[j].who])

C2_Witness ==
  \E i, j \in DOMAIN trace :
    /\ i < j
    /\ trace[i] = Call("Create", "net1", <<>>, NoKey, "ok")
    /\ trace[j] = Call("Create", "net0", <<>>, NoKey, "ok")
    /\ project.Networks["net1"]
    /\ ~project.Networks["net0"]

\* C3: when the resolution of a service fails, the pass still resolves every
\* other service that is not running, launches those that resolve, persists
\* the record, and does not return the error.
C3_ResolveFailureIsolated ==
  \A x \in SvcNames :
    (Returned /\ TraceHas("Resolved", x, "err")) =>
      /\ passErr = "nil"
      /\ TraceHas("Update", "project", "ok")
      /\ \A y \in SvcNames \ {x} :
           machines[y] # "running" =>
             /\ Called("Resolved", y)
             /\ TraceHas("Resolved", y, "ok") => Called("Launch", y)

C5_SkipRunningRemoveStale ==
  \A s \in SvcNames :
    /\ machines[s] = "running" => ~Called("Launch", s) /\ ~Called("Remove", s)
    /\ machines[s] = "exited" =>
         /\ (svcIdx > IndexOfService(s)
               \/ (svcIdx = IndexOfService(s) /\ pc # "svc"))
              => Called("Remove", s)
         /\ \A j \in DOMAIN trace :
              (trace[j].who = s /\ trace[j].op \in ResolveOps \cup {"Launch"})
                => \E i \in 1..(j - 1) :
                     trace[i] = Call("Remove", s, <<>>, NoKey, "ok")

C5_Witness ==
  \E i, j \in DOMAIN trace :
    /\ i < j
    /\ machines["web"] = "exited"
    /\ trace[i] = Call("Remove", "web", <<>>, NoKey, "ok")
    /\ trace[j].op = "Launch"
    /\ trace[j].who = "web"
    /\ machines["db"] = "running"
    /\ pc = "done"

\* C6: a pass calls Update at most once, after every Create, Remove,
\* resolution and Launch of the pass and before any log-tailing task starts;
\* a pass that fails earlier calls no Update and leaves the record as read.
C6_SinglePersistencePoint ==
  /\ Cardinality({ i \in DOMAIN trace : trace[i].op = "Update" }) <= 1
  /\ \A i \in DOMAIN trace : trace[i].op = "Update" =>
       /\ i = Len(trace)
       /\ orderedNetworks = <<>>
       /\ svcIdx > Len(project.Services)
  /\ (\E s \in SvcNames : logTask[s] # "none") => TraceHas("Update", "project", "ok")
  /\ (pc = "failed" /\ passErr # "update") => ~Called("Update", "project")
  /\ (pc \notin {"start", "get"} /\ passErr \notin {"validate", "get"}
        /\ ~TraceHas("Update", "project", "ok"))
       => record = embeddedProject

C6_Witness ==
  /\ pc = "logs"
  /\ TraceHas("Update", "project", "ok")
  /\ \E n \in NetNames : TraceHas("Create", n, "ok")
  /\ \E s \in SvcNames : TraceHas("Launch", s, "ok")
  /\ \A s \in SvcNames : logTask[s] = "none"

\* C7: the owned networks and machines a pass writes start with those of the
\* record it read, in full, and add only networks created in the pass and
\* re-fetched as up, and machines launched in the pass and re-fetched as
\* running.
C7_SupersetMerge ==
  pc \in {"logs", "wait", "done"} =>
    /\ record.Networks = projectNetworks
    /\ record.Machines = projectMachines
    /\ IsPrefix(embeddedProject.Networks, record.Networks)
    /\ IsPrefix(embeddedProject.Machines, record.Machines)
    /\ \A k \in (Len(embeddedProject.Networks) + 1)..Len(record.Networks) :
         /\ TraceHas("Create", record.Networks[k], "ok")
         /\ TraceHas("NetworkGet", record.Networks[k], "up")
    /\ \A k \in (Len(embeddedProject.Machines) + 1)..Len(record.Machines) :
         /\ Called("Launch", record.Machines[k])
         /\ TraceHas("MachineGet", record.Machines[k], "running")

C7_Witness ==
  /\ pc = "done"
  /\ passes = 2
  /\ embeddedProject.Networks # <<>>
  /\ embeddedProject.Machines = <<"web">>
  /\ record.Machines = <<"web", "db">>

\* the declared service of that name
ServiceOf(s) == project.Services[IndexOfService(s)]

\* the calls that change a resource of the host
MutatingOps == {"Create", "Remove", "Pull", "Build", "Package", "Launch"}

\* C11: for a declared service without a build context, the resolution ends
\* in an error that Run returns, with no Build, Package or Launch call for the
\* service, when its image reference is empty, and when it is not empty and
\* both the local and the remote catalog answer without a match.
C11_NoBuildContextFails ==
  \A s \in SvcNames :
    (~ServiceOf(s).Build /\ Called("Resolved", s)
       /\ \/ ServiceOf(s).Image = <<>>
          \/ /\ TraceHas("Catalog", s, "miss")
             /\ TraceHas("RemoteCatalog", s, "miss")) =>
      /\ TraceHas("Resolved", s, "err")
      /\ pc = "failed"
      /\ passErr = "resolve"
      /\ ~Called("Build", s)
      /\ ~Called("Package", s)
      /\ ~Called("Launch", s)

C11_Witness ==
  /\ ~ServiceOf("db").Build
  /\ ServiceOf("db").Image = <<"a">>
  /\ ~platArchFromService(ServiceOf("db")).err
  /\ TraceHas("Launch", "web", "ok")
  /\ TraceHas("Catalog", "db", "miss")
  /\ TraceHas("RemoteCatalog", "db", "miss")
  /\ TraceHas("Resolved", "db", "err")
  /\ pc = "failed"

\* C12: every Launch of a declared service whose image reference is empty
\* comes after a successful Build and a successful Package of that service.
C12_BuiltAndPackagedBeforeLaunch ==
  \A j \in DOMAIN trace :
    (trace[j].op = "Launch" /\ ServiceOf(trace[j].who).Image = <<>>) =>
      /\ \E i \in 1..(j - 1) :
           trace[i].op = "Build" /\ trace[i].who = trace[j].who /\ trace[i].res = "ok"
      /\ \E i \in 1..(j - 1) :
           trace[i].op = "Package" /\ trace[i].who = trace[j].who /\ trace[i].res = "ok"

\* C13: when Validate rejects the project, or a declared service has a
\* platform that is not of the form <platform>/<architecture>, the pass makes
\* no Create, Remove, Pull, Build, Package or Launch call, and fails.
C13_ValidationBeforeMutation ==
  (passErr = "validate"
     \/ \E i \in 1..Len(project.Services) :
          platArchFromService(project.Services[i]).err) =>
    /\ \A i \in DOMAIN trace : trace[i].op \notin MutatingOps
    /\ pc # "done"

\* C14: the log-tailing goroutines start only after a successful Update, one
\* for every declared service, launched or not; Run returns only when each of
\* them has returned, and then returns nil, whether or not some of them
\* failed; a pass that returns an error has started none.
C14_LogFanOut ==
  /\ (\E s \in SvcNames : logTask[s] # "none") => TraceHas("Update", "project", "ok")
  /\ pc \in {"wait", "done"} => \A s \in SvcNames : logTask[s] # "none"
  /\ pc = "done" =>
       /\ \A s \in SvcNames : logTask[s] \in {"done", "failed"}
       /\ passErr = "nil"
  /\ pc = "failed" => \A s \in SvcNames : logTask[s] = "none"

C14_Witness ==
  /\ pc = "done"
  /\ passErr = "nil"
  /\ logTask["web"] = "failed"
  /\ logTask["db"] = "done"
  /\ machines["web"] = "running"
  /\ TraceHas("Launch", "db", "err")

\* ------------------------------------------ claims about the resolver alone
\* the platform of the service under resolution, and the package its image
\* reference names
RPlatform == platArchFromService(rService)

RKey == KeyOfRef(rService.Image, RPlatform.plat, RPlatform.arch)

\* C8: when the local catalog holds a package matching the name, platform,
\* architecture and version of the image reference, and the query returns it,
\* the resolver succeeds having made no other call.
C8_LocalHitShortCircuits ==
  (rOut.returned /\ ~RPlatform.err /\ RKey \in rLocal) =>
    /\ rOut.calls[1].op = "Catalog"
    /\ rOut.calls[1].key = RKey
    /\ rOut.calls[1].res \in {"hit", "err"}
    /\ rOut.calls[1].res = "hit" =>
         /\ ~rOut.err
         /\ Len(rOut.calls) = 1
         /\ rOut.local = rLocal

C8_Witness ==
  /\ rOut.returned
  /\ rService.Image = <<"a">>
  /\ rOut.calls = <<Call("Catalog", rService.Name, <<>>,
                         PkgKey(<<"a">>, Latest, <<"q">>, <<"x">>), "hit")>>

\* C9: when the local catalog has no match and the remote catalog, asked with
\* the same filter, has one, the resolver makes exactly one Pull of the image
\* reference, no Build and no Package, and fails exactly when the Pull fails.
C9_RemoteHitPulls ==
  (rOut.returned /\ Len(rOut.calls) >= 2
     /\ rOut.calls[1].res = "miss" /\ rOut.calls[2].res = "hit") =>
    /\ rOut.calls[2].op = "RemoteCatalog"
    /\ rOut.calls[2].key = rOut.calls[1].key
    /\ Len(rOut.calls) = 3
    /\ rOut.calls[3].op = "Pull"
    /\ rOut.calls[3].arg = RKey.name \o <<":">> \o RKey.version
    /\ rOut.err <=> rOut.calls[3].res = "err"

C9_Witness ==
  /\ rOut.returned
  /\ Len(rOut.calls) = 3
  /\ rOut.calls[2].res = "hit"
  /\ rOut.calls[3] = Call("Pull", rService.Name, <<"a", ":", "b">>,
                          PkgKey(<<>>, <<>>, <<"q">>, <<"x">>), "ok")
  /\ ~rOut.err

\* C10: when neither catalog has a match and the service declares a build
\* context, Build is called first, Package only after a successful Build and
\* under the normalised image reference, and the resolver succeeds exactly
\* when both succeed.
C10_BuildFallback ==
  (rOut.returned /\ Len(rOut.calls) >= 2 /\ rService.Build
     /\ rOut.calls[1].res = "miss" /\ rOut.calls[2].res = "miss") =>
    /\ Len(rOut.calls) >= 3
    /\ rOut.calls[3].op = "Build"
    /\ Len(rOut.calls) = (IF rOut.calls[3].res = "ok" THEN 4 ELSE 3)
    /\ Len(rOut.calls) = 4 =>
         /\ rOut.calls[4].op = "Package"
         /\ rOut.calls[4].arg = RKey.name \o <<":">> \o RKey.version
    /\ ~rOut.err <=> (Len(rOut.calls) = 4 /\ rOut.calls[4].res = "ok")

C10_Witness ==
  /\ rOut.returned
  /\ rService.Image = <<"a">>
  /\ Len(rOut.calls) = 4
  /\ rOut.calls[3].op = "Build"
  /\ rOut.calls[4] = Call("Package", rService.Name, <<"a", ":", "l", "a", "t", "e", "s", "t">>,
                          PkgKey(<<>>, <<>>, <<"q">>, <<"x">>), "ok")
  /\ ~rOut.err


\* ------------------------------------------------- claims about the watch
\* the goroutines started for machine uid that have not returned
Active(uid) ==
  { o \in ObsIds : o[2] = uid /\ obs[o].status \in {"spawned", "watching"} }

\* the add loop of the current tick is over, the check of line 193 not made
AddStepDone == wpc = "add" /\ addIdx > Len(listed)

NonTerminal == {"unknown", "starting", "running"}

Terminal == {"exited", "failed"}

C16_OneObserverPerIdentity ==
  \A uid \in MachineIds :
    /\ Cardinality(Active(uid)) <= 1
    /\ (Contains(observations, uid) /\ wpc = "sleep"
          /\ \A o \in ObsIds : o[2] = uid => obs[o].status # "exited")
         => Cardinality(Active(uid)) = 1

C18_TickAdmission ==
  (tick = 1 /\ AddStepDone) =>
    \A i \in DOMAIN listed :
      Contains(observations, listed[i].UID)
        <=> /\ matches(args, listed[i].UID)
            /\ listed[i].State \in NonTerminal \/ ~quitTogether

\* C19: when the registry is empty after the add loop and --quit-together is
\* set, the loop cancels the context and is left at once: no goroutine is
\* started at that tick and there is no further Sleep or List; the registry
\* is empty, so Run returns; Spawn is reached with --quit-together only with
\* a registry that was not empty.
C19_QuitWhenEmpty ==
  /\ stop = "empty" =>
       /\ quitTogether
       /\ cancelled
       /\ wpc \in {"wait", "returned"}
       /\ observations = <<>>
       /\ \A o \in ObsIds : o[1] = tick => obs[o].status = "none"
  /\ (quitTogether /\ tick = 1 /\ wpc = "spawn") => observations # <<>>

C19_Witness ==
  /\ stop = "empty"
  /\ wpc = "returned"
  /\ watchErr = "nil"
  /\ tick = 1
  /\ \A o \in ObsIds : obs[o].status = "none"

\* C20: an observer that has handled an exited or failed event has returned,
\* and the machine is then out of the registry until a later tick adds it
\* again; while no observer of a machine has handled anything but unknown,
\* starting and running events, the machine stays in the registry.
C20_TerminalStateRemoval ==
  \A o \in ObsIds :
    /\ obs[o].seen \cap Terminal # {} =>
         /\ obs[o].status = "exited"
         /\ Cardinality(obs[o].seen \cap Terminal) = 1
         /\ tick = o[1] => ~Contains(observations, o[2])
    /\ (obs[o].seen # {}
          /\ \A p \in ObsIds : p[2] = o[2] => obs[p].seen \subseteq NonTerminal)
         => Contains(observations, o[2])

C20_Witness ==
  /\ obs[<<1, "u1">>] = [status |-> "exited", seen |-> {"starting", "running", "exited"}]
  /\ ~Contains(observations, "u1")
  /\ ~cancelled
  /\ tick = 1

\* C21: an observer that has received an error of its stream has removed its
\* machine and returned.
C21_StreamErrorEndsObserver ==
  \A o \in ObsIds : "error" \in obs[o].seen => obs[o].status = "exited"

\* C22: once the stream of a machine could not be opened, no goroutine is
\* started for that machine at a later tick.
C22_OpenFailureNotRetried ==
  [][\A o, p \in ObsIds :
       ("openerr" \in obs[o].seen /\ p[2] = o[2] /\ obs[p].status = "none")
         => obs'[p].status = "none"]_vars

\* C23: when a listing fails Run has returned with that error: the failed
\* listing is not counted as a tick, nothing is left to add, no goroutine of
\* a later tick exists and the loop was not left by a break.
C23_ListFailureFatal ==
  watchErr = "list" =>
    /\ wpc = "returned"
    /\ stop = "none"
    /\ listed = <<>>
    /\ addIdx = 0
    /\ \A o \in ObsIds : o[1] > tick => obs[o].status = "none"

C23_Witness ==
  /\ watchErr = "list"
  /\ wpc = "returned"
  /\ tick = 1
  /\ observations = <<"u1", "u2">>
  /\ obs[<<1, "u1">>].status = "watching"
  /\ obs[<<2, "u1">>].status = "none"

\* C24: when Run returns nil, every observer goroutine it started has
\* returned.
C24_DrainBeforeReturn ==
  (wpc = "returned" /\ watchErr = "nil") =>
    \A o \in ObsIds : obs[o].status \in {"none", "exited"}

\* C26: no step of the watch changes the state of a machine: a step that
\* changes the state of a machine leaves the registry, the observers, the
\* position of the loop and the context as they were.
C26_WatchReadOnly ==
  [][mstate' # mstate =>
       /\ observations' = observations
       /\ obs' = obs
       /\ wpc' = wpc
       /\ tick' = tick
       /\ cancelled' = cancelled
       /\ lastOp' = lastOp]_vars

C26_Witness ==
  \E o \in ObsIds :
    /\ "cancel" \in obs[o].seen
    /\ obs[o].status = "exited"
    /\ mstate[o[2]] = "running"
    /\ lastOp[o[2]] = "remove"

\* C29: a pass that has removed the stale machine of a service has attempted
\* to launch that service by the time it ends.
C29_RelaunchAfterStaleRemoval ==
  Returned =>
    \A s \in SvcNames : TraceHas("Remove", s, "ok") => Called("Launch", s)

\* The scheduling of the watch. The loop of Run and every goroutine that can
\* take a step takes it; a case of a select that stays ready is taken. Nothing
\* is assumed of Ctrl+C, of the machines or of the errors of a stream.
WatchFairness ==
  /\ WF_vars(Seek)
  /\ WF_vars(List)
  /\ WF_vars(AddMachine)
  /\ WF_vars(QuitCheck)
  /\ WF_vars(Spawn)
  /\ WF_vars(Sleep)
  /\ WF_vars(Wait)
  /\ \A o \in ObsIds :
       /\ WF_vars(ObserverOpens(o))
       /\ WF_vars(ObserverEvent(o))
       /\ WF_vars(ObserverCancelled(o))

\* the watch of machine u1 while the other machine of the store is at rest
InitObserveOne ==
  /\ InitObserve
  /\ args = <<"u1">>
  /\ mstate["u2"] = "exited"

SpecObserveFair == InitObserveOne /\ [][NextWatch]_vars /\ WatchFairness

\* C25: once the context is cancelled Run returns (a listing at the last
\* tick of the model left aside).
C25_CancellationTerminates ==
  (cancelled /\ ~(wpc = "list" /\ tick = MaxTicks)) ~> (wpc = "returned")

Matching == { u \in MachineIds : matches(args, u) }

OpenFailed == \E o \in ObsIds : "openerr" \in obs[o].seen

\* C27: with --quit-together, (1) a registered machine that has reached a
\* terminal state leaves the registry, unless Run has returned or a stream
\* could not be opened, and (2) a tick that begins with the registry empty and
\* every matching machine terminal ends with Run returned.
C27_QuitTogetherReturns ==
  /\ \A u \in MachineIds :
       (quitTogether /\ Contains(observations, u) /\ isTerminal(mstate[u]))
         ~> (~Contains(observations, u) \/ wpc = "returned" \/ OpenFailed)
  /\ (/\ quitTogether
      /\ wpc = "list"
      /\ tick < MaxTicks
      /\ observations = <<>>
      /\ \A u \in Matching : isTerminal(mstate[u]))
       ~> (wpc = "returned")

C27_Witness ==
  /\ quitTogether
  /\ wpc = "returned"
  /\ watchErr = "nil"
  /\ stop = "empty"
  /\ tick = 2
  /\ ~OpenFailed
  /\ \E o \in ObsIds :
       /\ o[2] \in Matching
       /\ obs[o].status = "exited"
       /\ obs[o].seen \cap {"exited", "failed"} # {}
       /\ "running" \in obs[o].seen

NoDuplicates(seq) == \A i, j \in DOMAIN seq : seq[i] = seq[j] => i = j

\* C28: the owned networks and the owned machines of the persisted record
\* hold no name twice.
C28_OwnedSetsStaySets ==
  NoDuplicates(record.Networks) /\ NoDuplicates(record.Machines)

\* the total of the bytes written, reduced modulo 2^32
Mod32(t) == U32(t.hi % Half, t.lo)

\* the uint32 that four bytes spell, least significant byte first
FromLittleEndian(b) == U32(b[3] + ByteValues * b[4], b[1] + ByteValues * b[2])

\* C30: the checksum is the sum of the bytes written since the digest was
\* new or reset, modulo 2^32, however the bytes were split over the calls;
\* Write returns len(p) and no error; Sum returns b followed by the four
\* bytes of the checksum, least significant first, and leaves the checksum as
\* it was; Sum32 returns the checksum.
C30_Svr4Checksum ==
  /\ hSum = Mod32(hTotal)
  /\ hRet.op = "Write" => (hRet.n = Len(hRet.arg) /\ hRet.err = "nil")
  /\ hRet.op = "Sum" =>
       /\ Len(hRet.out) = Len(hRet.arg) + 4
       /\ SubSeq(hRet.out, 1, Len(hRet.arg)) = hRet.arg
       /\ \A i \in DOMAIN hRet.out : hRet.out[i] \in 0..(ByteValues - 1)
       /\ FromLittleEndian(SubSeq(hRet.out, Len(hRet.arg) + 1, Len(hRet.out)))
            = Mod32(hTotal)
       /\ hSum = hRet.before
  /\ hRet.op = "Sum32" => (hRet.val = Mod32(hTotal) /\ hSum = hRet.before)
  /\ hRet.op \in {"Reset", "NewHash"} => hSum = U32(0, 0)

\* the checksum has wrapped past 2^32 in a Write of two bytes, and Sum
\* has appended it to a slice that was not empty
C30_Witness ==
  /\ hRet.op = "Sum"
  /\ hRet.arg = <<255, 1>>
  /\ hTotal = U32(Half, 254)
  /\ hSum = U32(0, 254)
  /\ hRet.out = <<255, 1, 254, 0, 0, 0>>

====
